---- MODULE Spec2Model ----
(***************************************************************************)
(* Model of paper.js src/item/Shape.js: a Shape item of type 'circle',     *)
(* 'ellipse' or 'rect' holding a _size and a _radius, its accessors        *)
(* setSize / setRadius, its outline emission _draw, and its analytic       *)
(* _contains and _hitTest.                                                 *)
(*                                                                         *)
(* Numbers are points of an integer grid.  Every argument fed to an        *)
(* operation is chosen so that each halving the code performs on it is     *)
(* exact on the grid (see ExactSize), so \div below is exact division.     *)
(***************************************************************************)
EXTENDS Integers, Sequences, FiniteSets

VARIABLES type, _size, _radius, call, pre, events, ret

vars == <<type, _size, _radius, call, pre, events, ret>>

\* Largest width or height of a size argument.
MaxSize == 4
\* Largest radius argument (a circle's radius, a corner or ellipse radius).
MaxRadius == 1
\* Largest absolute coordinate of a queried point.
MaxCoord == 2
\* Largest stroke width of the style.
MaxStroke == 2

----------------------------------------------------------------------------
(* Value types used by Shape.js *)

Size(w, h) == [width |-> w, height |-> h]

equals(a, b) == a.width = b.width /\ a.height = b.height

Point(x, y) == [x |-> x, y |-> y]

Abs(n) == IF n < 0 THEN -n ELSE n

IsSquare(n) == \E k \in 0 .. n : k * k = n

Sqrt(n) == CHOOSE k \in 0 .. n : k * k = n

\* Point#getLength, on points whose length lies on the grid
getLength(p) == Sqrt(p.x * p.x + p.y * p.y)

Types == {"circle", "ellipse", "rect", "other"}

Sizes == {Size(w, h) : w \in 0 .. MaxSize, h \in 0 .. MaxSize}

Radii == {Size(w, h) : w \in 0 .. MaxRadius, h \in 0 .. MaxRadius}

\* The size arguments on which the halvings of setSize are exact.
ExactSize(t, s) ==
    CASE t = "circle" -> (s.width + s.height) % 4 = 0
      [] t = "ellipse" -> s.width % 2 = 0 /\ s.height % 2 = 0
      [] OTHER -> TRUE

\* The points whose length is a grid number.
Points ==
    {p \in {Point(x, y) : x \in -MaxCoord .. MaxCoord, y \in -MaxCoord .. MaxCoord} :
        IsSquare(p.x * p.x + p.y * p.y)}

\* One observable effect of a call: a field store, a notification or a
\* drawing-context command with its coordinates.
Ev(name) == [cmd |-> name, pts |-> <<>>]

Cmd(name, pts) == [cmd |-> name, pts |-> pts]

\* What a call leaves behind: the fields, its effects in order, its result.
Result(s, r, e, v) == [size |-> s, radius |-> r, events |-> e, ret |-> v]

----------------------------------------------------------------------------
(* Variants of setSize with one plausible slip each, used to see that the  *)
(* properties below depend on the code.                                    *)

\* the equality guard is dropped
setSize_NoGuard(t, size0, radius0, size) ==
    LET avg == (size.width + size.height) \div 2 IN
    IF t = "circle"
    THEN Result(Size(avg, avg), avg \div 2,
                <<Ev("_radius"), Ev("_size"), Ev("_changed")>>, "undefined")
    ELSE IF t = "ellipse"
    THEN Result(Size(size.width, size.height),
                Size(size.width \div 2, size.height \div 2),
                <<Ev("_radius"), Ev("_size"), Ev("_changed")>>, "undefined")
    ELSE Result(Size(size.width, size.height), radius0,
                <<Ev("_size"), Ev("_changed")>>, "undefined")

\* the radius follows the size for every kind but the circle
setSize_RadiusFollows(t, size0, radius0, size) ==
    IF ~equals(size0, size)
    THEN LET avg == (size.width + size.height) \div 2 IN
         IF t = "circle"
         THEN Result(Size(avg, avg), avg \div 2,
                     <<Ev("_radius"), Ev("_size"), Ev("_changed")>>, "undefined")
         ELSE Result(Size(size.width, size.height),
                     Size(size.width \div 2, size.height \div 2),
                     <<Ev("_radius"), Ev("_size"), Ev("_changed")>>, "undefined")
    ELSE Result(size0, radius0, <<>>, "undefined")

(* Shape#setSize *)

setSize(t, size0, radius0, size) ==
    IF ~equals(size0, size)
    THEN LET avg == (size.width + size.height) \div 2 IN
         IF t = "circle"
         THEN Result(Size(avg, avg), avg \div 2,
                     <<Ev("_radius"), Ev("_size"), Ev("_changed")>>, "undefined")
         ELSE IF t = "ellipse"
         THEN Result(Size(size.width, size.height),
                     Size(size.width \div 2, size.height \div 2),
                     <<Ev("_radius"), Ev("_size"), Ev("_changed")>>, "undefined")
         ELSE Result(Size(size.width, size.height), radius0,
                     <<Ev("_size"), Ev("_changed")>>, "undefined")
    ELSE Result(size0, radius0, <<>>, "undefined")

(* Shape#getRadius, Shape#getSize: the stored values *)

getRadius(t, radius0) ==
    IF t = "circle" THEN radius0 ELSE Size(radius0.width, radius0.height)

getSize(size0) == Size(size0.width, size0.height)

(* Variants of setRadius with one plausible slip each. *)

\* the ellipse's size is not brought along
setRadius_SizeNotSynced(t, size0, radius0, radius) ==
    IF t = "circle"
    THEN IF radius = radius0
         THEN Result(size0, radius0, <<>>, "undefined")
         ELSE Result(Size(radius * 2, radius * 2), radius0,
                     <<Ev("_size"), Ev("_changed")>>, "undefined")
    ELSE IF equals(radius0, radius)
         THEN Result(size0, radius0, <<>>, "undefined")
         ELSE Result(size0, Size(radius.width, radius.height),
                     <<Ev("_radius"), Ev("_changed")>>, "undefined")

\* the notification is only sent from the circle branch
setRadius_NoNotify(t, size0, radius0, radius) ==
    IF t = "circle"
    THEN IF radius = radius0
         THEN Result(size0, radius0, <<>>, "undefined")
         ELSE Result(Size(radius * 2, radius * 2), radius0,
                     <<Ev("_size"), Ev("_changed")>>, "undefined")
    ELSE IF equals(radius0, radius)
         THEN Result(size0, radius0, <<>>, "undefined")
         ELSE IF t = "ellipse"
              THEN Result(Size(radius.width * 2, radius.height * 2),
                          Size(radius.width, radius.height),
                          <<Ev("_radius"), Ev("_size")>>, "undefined")
              ELSE Result(size0, Size(radius.width, radius.height),
                          <<Ev("_radius")>>, "undefined")

\* the equality guard of the size-pair branch is dropped
setRadius_NoGuard(t, size0, radius0, radius) ==
    IF t = "circle"
    THEN IF radius = radius0
         THEN Result(size0, radius0, <<>>, "undefined")
         ELSE Result(Size(radius * 2, radius * 2), radius0,
                     <<Ev("_size"), Ev("_changed")>>, "undefined")
    ELSE IF t = "ellipse"
         THEN Result(Size(radius.width * 2, radius.height * 2),
                     Size(radius.width, radius.height),
                     <<Ev("_radius"), Ev("_size"), Ev("_changed")>>, "undefined")
         ELSE Result(size0, Size(radius.width, radius.height),
                     <<Ev("_radius"), Ev("_changed")>>, "undefined")

(* Shape#setRadius.  The circle branch stores the new size only: the      *)
(* _radius field is not assigned.                                          *)

setRadius(t, size0, radius0, radius) ==
    IF t = "circle"
    THEN IF radius = radius0
         THEN Result(size0, radius0, <<>>, "undefined")
         ELSE LET size == radius * 2 IN
              Result(Size(size, size), radius0,
                     <<Ev("_size"), Ev("_changed")>>, "undefined")
    ELSE IF equals(radius0, radius)
         THEN Result(size0, radius0, <<>>, "undefined")
         ELSE IF t = "ellipse"
              THEN Result(Size(radius.width * 2, radius.height * 2),
                          Size(radius.width, radius.height),
                          <<Ev("_radius"), Ev("_size"), Ev("_changed")>>,
                          "undefined")
              ELSE Result(size0, Size(radius.width, radius.height),
                          <<Ev("_radius"), Ev("_changed")>>, "undefined")

----------------------------------------------------------------------------
(* Coordinates handed to the drawing context.  KAPPA is irrational, so a   *)
(* coordinate is kept exactly as the pair <<n, m>> standing for            *)
(* (n + m * KAPPA) / 2.                                                    *)

Num(n) == <<2 * n, 0>>

Half(n) == <<n, 0>>

KAPPA == <<0, 2>>

Neg(a) == <<-a[1], -a[2]>>

Add(a, b) == <<a[1] + b[1], a[2] + b[2]>>

Sub(a, b) == <<a[1] - b[1], a[2] - b[2]>>

\* the grid number n times the coordinate a
Mul(n, a) == <<n * a[1], n * a[2]>>

(* Shape#_draw: the ellipse outline *)
drawEllipse(radius0) ==
    LET rx == Num(radius0.width)
        ry == Num(radius0.height)
        kappa == KAPPA
        cx == Mul(radius0.width, kappa)
        cy == Mul(radius0.height, kappa)
        O == Num(0)
    IN  << Cmd("moveTo", <<Neg(rx), O>>),
           Cmd("bezierCurveTo", <<Neg(rx), Neg(cy), Neg(cx), Neg(ry), O, Neg(ry)>>),
           Cmd("bezierCurveTo", <<cx, Neg(ry), rx, Neg(cy), rx, O>>),
           Cmd("bezierCurveTo", <<rx, cy, cx, ry, O, ry>>),
           Cmd("bezierCurveTo", <<Neg(cx), ry, Neg(rx), cy, Neg(rx), O>>) >>

(* Shape#_draw: the rect outline, straight or rounded *)
drawRect(size0, radius0) ==
    LET rx == Num(radius0.width)
        ry == Num(radius0.height)
        width == size0.width
        height == size0.height
    IN  IF radius0.width = 0 /\ radius0.height = 0
        THEN << Cmd("rect", <<Neg(Half(width)), Neg(Half(height)),
                              Num(width), Num(height)>>) >>
        ELSE LET kappa == Sub(Num(1), KAPPA)
                 x == Half(width)
                 y == Half(height)
                 cx == Mul(radius0.width, kappa)
                 cy == Mul(radius0.height, kappa)
                 nx == Neg(x)
                 ny == Neg(y)
             IN << Cmd("moveTo", <<nx, Add(ny, ry)>>),
                   Cmd("bezierCurveTo", <<nx, Add(ny, cy), Add(nx, cx), ny,
                                          Add(nx, rx), ny>>),
                   Cmd("lineTo", <<Sub(x, rx), ny>>),
                   Cmd("bezierCurveTo", <<Sub(x, cx), ny, x, Add(ny, cy),
                                          x, Add(ny, ry)>>),
                   Cmd("lineTo", <<x, Sub(y, ry)>>),
                   Cmd("bezierCurveTo", <<x, Sub(y, cy), Sub(x, cx), y,
                                          Sub(x, rx), y>>),
                   Cmd("lineTo", <<Add(nx, rx), y>>),
                   Cmd("bezierCurveTo", <<Add(nx, cx), y, nx, Sub(y, cy),
                                          nx, Sub(y, ry)>>) >>

(* Shape#_draw: the path commands, then the styles, the fill and the stroke *)
draw(t, size0, radius0, fillColor, strokeColor, clip) ==
    LET outline ==
            IF fillColor \/ strokeColor \/ clip
            THEN <<Ev("beginPath")>> \o
                 (IF t = "circle"
                  THEN <<Cmd("arc", <<Num(0), Num(0), Num(radius0)>>)>>
                  ELSE IF t = "ellipse"
                  THEN drawEllipse(radius0)
                  ELSE drawRect(size0, radius0))
            ELSE <<>>
        paint ==
            IF ~clip /\ (fillColor \/ strokeColor)
            THEN <<Ev("_setStyles")>> \o
                 (IF fillColor THEN <<Ev("fill")>> ELSE <<>>) \o
                 (IF strokeColor THEN <<Ev("stroke")>> ELSE <<>>)
            ELSE <<>>
    IN  Result(size0, radius0, outline \o paint, "undefined")

----------------------------------------------------------------------------
(* Rectangle(size).setCenter(0, 0).expand(amount) and                      *)
(* Rectangle#_containsPoint, in doubled coordinates: the rectangle spans   *)
(* -(w + amount)/2 .. (w + amount)/2 on each axis.                         *)

rectContains(size0, amount, point) ==
    /\ 2 * point.x >= -(size0.width + amount)
    /\ 2 * point.y >= -(size0.height + amount)
    /\ 2 * point.x <= -(size0.width + amount) + 2 * (size0.width + amount)
    /\ 2 * point.y <= -(size0.height + amount) + 2 * (size0.height + amount)

Bool(b) == IF b THEN "true" ELSE "false"

\* a variant of _contains answering false for a type the switch does not
\* list
contains_DefaultFalse(t, size0, point) ==
    CASE t = "rect" -> Bool(rectContains(size0, 0, point))
      [] t \in {"circle", "ellipse"} ->
            IF size0.width = 0 \/ size0.height = 0
            THEN "false"
            ELSE Bool(4 * (point.x * point.x * size0.height * size0.height
                           + point.y * point.y * size0.width * size0.width)
                        <= size0.width * size0.width * size0.height * size0.height)
      [] OTHER -> "false"

(* Shape#_contains.  point.divide(size).getLength() <= 0.5 is compared in  *)
(* squares: (x/w)^2 + (y/h)^2 <= 1/4; a division by a zero size component  *)
(* gives Infinity or NaN, and the comparison is then false.               *)
contains(t, size0, point) ==
    CASE t = "rect" -> Bool(rectContains(size0, 0, point))
      [] t \in {"circle", "ellipse"} ->
            LET w == size0.width
                h == size0.height
            IN  IF w = 0 \/ h = 0
                THEN "false"
                ELSE Bool(4 * (point.x * point.x * h * h + point.y * point.y * w * w)
                            <= w * w * h * h)
      [] OTHER -> "undefined"

(* Shape#_hitTest: "stroke" for a HitResult('stroke'), "base" when the     *)
(* call falls through to _hitTest.base.  The ellipse radius at the point's *)
(* angle is taken on the axes, where sin and cos are 0 and 1:              *)
(* w * h / (2 * |h|) on the x axis (and at the origin, angle 0),           *)
(* w * h / (2 * |w|) on the y axis; 0 / 0 is NaN and never a hit.          *)
hitTest(t, size0, radius0, hasStroke, strokeWidth, point) ==
    IF hasStroke
    THEN CASE t = "rect" ->
                IF rectContains(size0, strokeWidth, point)
                   /\ ~rectContains(size0, -strokeWidth, point)
                THEN "stroke" ELSE "base"
           [] t = "circle" ->
                IF 2 * Abs(getLength(point) - radius0) <= strokeWidth
                THEN "stroke" ELSE "base"
           [] t = "ellipse" ->
                LET width == size0.width
                    height == size0.height
                    den == IF point.y = 0 THEN height ELSE width
                IN  IF den = 0
                    THEN "base"
                    ELSE IF 2 * Abs(2 * getLength(point) - (width * height) \div den)
                              <= 2 * strokeWidth
                         THEN "stroke" ELSE "base"
           [] OTHER -> "base"
    ELSE "base"

----------------------------------------------------------------------------
(* State machine *)

\* Shape.Circle, Shape.Ellipse, Shape.Rectangle and the Shape constructor
\* called with another type string.
Init ==
    /\ type \in Types
    /\ \/ /\ type = "circle"
          /\ \E r \in 0 .. MaxRadius : _size = Size(r * 2, r * 2) /\ _radius = r
       \/ /\ type = "ellipse"
          /\ \E s \in Sizes :
                /\ ExactSize("ellipse", s)
                /\ _size = s
                /\ _radius = Size(s.width \div 2, s.height \div 2)
       \/ /\ type \in {"rect", "other"}
          /\ \E s \in Sizes, r \in Radii : _size = s /\ _radius = r
    /\ call = [op |-> "new"]
    /\ pre = [size |-> _size, radius |-> _radius]
    /\ events = <<>>
    /\ ret = "undefined"

Apply(c, res) ==
    /\ call' = c
    /\ pre' = [size |-> _size, radius |-> _radius]
    /\ _size' = res.size
    /\ _radius' = res.radius
    /\ events' = res.events
    /\ ret' = res.ret
    /\ UNCHANGED type

SetSize ==
    \E size \in Sizes :
        /\ ExactSize(type, size)
        /\ Apply([op |-> "setSize", size |-> size],
                 setSize(type, _size, _radius, size))

\* A circle's radius is a number, any other radius a size pair.
RadiusArgs(t) == IF t = "circle" THEN 0 .. MaxRadius ELSE Radii

SetRadius ==
    \E radius \in RadiusArgs(type) :
        Apply([op |-> "setRadius", radius |-> radius],
              setRadius(type, _size, _radius, radius))

Draw ==
    \E fillColor \in BOOLEAN, strokeColor \in BOOLEAN, clip \in BOOLEAN :
        Apply([op |-> "draw", fillColor |-> fillColor,
               strokeColor |-> strokeColor, clip |-> clip],
              draw(type, _size, _radius, fillColor, strokeColor, clip))

Contains ==
    \E point \in Points :
        Apply([op |-> "contains", point |-> point],
              Result(_size, _radius, <<>>, contains(type, _size, point)))

\* The ellipse is queried on the coordinate axes.
HitTest ==
    \E point \in Points, hasStroke \in BOOLEAN, strokeWidth \in 0 .. MaxStroke :
        /\ type = "ellipse" => point.x = 0 \/ point.y = 0
        /\ Apply([op |-> "hitTest", point |-> point, hasStroke |-> hasStroke,
                  strokeWidth |-> strokeWidth],
                 Result(_size, _radius, <<>>,
                        hitTest(type, _size, _radius, hasStroke, strokeWidth, point)))

Next == SetSize \/ SetRadius \/ Draw \/ Contains \/ HitTest

Spec == Init /\ [][Next]_vars

\* The accessors alone.
NextAccessors == SetSize \/ SetRadius

SpecAccessors == Init /\ [][NextAccessors]_vars

\* The accessors and the outline emission.
NextDraw == SetSize \/ SetRadius \/ Draw

SpecDraw == Init /\ [][NextDraw]_vars

\* The accessors and the stroke hit-test.
NextHitTest == SetSize \/ SetRadius \/ HitTest

SpecHitTest == Init /\ [][NextHitTest]_vars

\* A Shape constructed with a type other than 'circle', 'ellipse', 'rect'.
InitOther == Init /\ type = "other"

SpecOther == InitOther /\ [][Next]_vars

----------------------------------------------------------------------------
(* Properties *)

IsSetter == call.op \in {"setSize", "setRadius"}

\* the number of geometry-changed notifications of the last call
Notified == Len(SelectSeq(events, LAMBDA e : e.cmd = "_changed"))

Unchanged == _size = pre.size /\ _radius = pre.radius

\* the path-construction commands of the last _draw, after beginPath
Path ==
    SelectSeq(events, LAMBDA e :
        e.cmd \in {"moveTo", "lineTo", "bezierCurveTo", "rect", "arc"})

CountCmd(name) == Len(SelectSeq(events, LAMBDA e : e.cmd = name))

\* the point a path command ends at
EndPoint(c) == <<c.pts[Len(c.pts) - 1], c.pts[Len(c.pts)]>>

Visible == call.fillColor \/ call.strokeColor \/ call.clip

\* C1: for a circle, after any sequence of setSize and setRadius calls,
\* size.width == size.height == 2 * radius, radius being what getRadius()
\* returns.
C1_CircleSizeIsTwiceRadius ==
    type = "circle" =>
        /\ getSize(_size).width = getSize(_size).height
        /\ getSize(_size).width = 2 * getRadius(type, _radius)

\* C2: for an ellipse, radius.width == size.width / 2 and radius.height ==
\* size.height / 2 after every call; setSize(w, h) then getRadius() yields
\* (w/2, h/2) and setRadius(rw, rh) then getSize() yields (2rw, 2rh).
C2_EllipseRadiusIsHalfSize ==
    type = "ellipse" =>
        /\ 2 * getRadius(type, _radius).width = getSize(_size).width
        /\ 2 * getRadius(type, _radius).height = getSize(_size).height
        /\ call.op = "setSize" =>
              /\ 2 * getRadius(type, _radius).width = call.size.width
              /\ 2 * getRadius(type, _radius).height = call.size.height
        /\ call.op = "setRadius" =>
              /\ getSize(_size).width = 2 * call.radius.width
              /\ getSize(_size).height = 2 * call.radius.height

\* an ellipse whose setRadius call changed both radius and size
C2_Witness ==
    /\ type = "ellipse"
    /\ call.op = "setRadius"
    /\ _radius # pre.radius
    /\ _size # pre.size

\* C3: for a rect, setRadius leaves size unchanged and setSize leaves
\* radius unchanged, whatever the arguments.
C3_RectFrame ==
    type = "rect" =>
        /\ call.op = "setRadius" => _size = pre.size
        /\ call.op = "setSize" => _radius = pre.radius

\* a rect whose setSize call stored a new size next to a non-zero radius
C3_Witness ==
    /\ type = "rect"
    /\ call.op = "setSize"
    /\ _size # pre.size
    /\ _radius.width > 0

\* C4: for a circle, setRadius(r) then getSize() yields (2r, 2r), and
\* setSize(2r, 2r) then getRadius() yields r.
C4_CircleRoundTrip ==
    type = "circle" =>
        /\ call.op = "setRadius" =>
              getSize(_size) = Size(2 * call.radius, 2 * call.radius)
        /\ (call.op = "setSize" /\ call.size.width = call.size.height) =>
              2 * getRadius(type, _radius) = call.size.width

\* C5: for every kind, setSize with the current size and setRadius with
\* the current radius change neither size nor radius and notify nobody.
C5_SameValueIsNoOp ==
    /\ (call.op = "setSize" /\ equals(call.size, pre.size)) =>
          Unchanged /\ Notified = 0
    /\ (call.op = "setRadius" /\ call.radius = getRadius(type, pre.radius)) =>
          Unchanged /\ Notified = 0

\* a setSize call given the size the shape already had
C5_Witness ==
    /\ call.op = "setSize"
    /\ equals(call.size, pre.size)
    /\ pre.size.width > 0

\* C6: a setSize or setRadius call that changes the stored size or radius
\* emits exactly one notification, after the stores and as its last effect.
C6_OneNotificationPerMutation ==
    (IsSetter /\ ~Unchanged) =>
        /\ Notified = 1
        /\ events[Len(events)].cmd = "_changed"

\* a setRadius call that changed the stored radius
C6_Witness ==
    /\ call.op = "setRadius"
    /\ type # "circle"
    /\ _radius # pre.radius

\* C7: the outline of a rect: one plain rectangle and no curve when both
\* corner radii are zero; otherwise 4 line segments and 4 curve segments,
\* alternating, in one contour whose last segment ends at the starting
\* point (-w/2, -h/2 + ry).  Stated for corner radii within half the side,
\* which the callers are to ensure.
C7_RoundedRectOutline ==
    (type = "rect" /\ call.op = "draw" /\ Visible
        /\ 2 * _radius.width <= _size.width
        /\ 2 * _radius.height <= _size.height) =>
        IF _radius.width = 0 /\ _radius.height = 0
        THEN /\ CountCmd("rect") = 1
             /\ Len(Path) = 1
             /\ CountCmd("bezierCurveTo") = 0
        ELSE LET segs == Tail(Path)
                 start == <<Neg(Half(_size.width)),
                            Add(Neg(Half(_size.height)), Num(_radius.height))>>
             IN  /\ CountCmd("moveTo") = 1
                 /\ Path[1] = Cmd("moveTo", start)
                 /\ CountCmd("lineTo") = 4
                 /\ CountCmd("bezierCurveTo") = 4
                 /\ \A i \in 1 .. Len(segs) - 1 : segs[i].cmd # segs[i + 1].cmd
                 /\ EndPoint(segs[Len(segs)]) = start

\* C8: for a stroked circle of stroke width s, with R half of its size
\* width, a point at distance exactly R + s/2 is a stroke hit and a point
\* farther than R + s/2 is not.
C8_CircleStrokeBoundary ==
    (type = "circle" /\ call.op = "hitTest" /\ call.hasStroke
        /\ call.strokeWidth > 0) =>
        /\ 2 * getLength(call.point) = _size.width + call.strokeWidth =>
              ret = "stroke"
        /\ 2 * getLength(call.point) > _size.width + call.strokeWidth =>
              ret # "stroke"

\* C9 as stated: every operation on a shape of an unrecognised kind fails
\* with an error.
C9_UnknownKindFails ==
    (type = "other" /\ call.op # "new") => ret = "error"

\* C9 amended: no operation rejects an unrecognised kind.  setSize and
\* setRadius store their argument and leave the other field alone, with one
\* notification; the outline is the rect outline; _contains returns
\* undefined; the stroke hit-test reports no stroke hit.
C9_UnknownKindIsNotRejected ==
    type = "other" =>
        /\ ret # "error"
        /\ call.op = "setSize" =>
              /\ _size = call.size /\ _radius = pre.radius
              /\ Notified = (IF equals(pre.size, call.size) THEN 0 ELSE 1)
        /\ call.op = "setRadius" =>
              /\ _radius = call.radius /\ _size = pre.size
              /\ Notified = (IF equals(pre.radius, call.radius) THEN 0 ELSE 1)
        /\ (call.op = "draw" /\ Visible) =>
              /\ CountCmd("arc") = 0
              /\ IF _radius.width = 0 /\ _radius.height = 0
                 THEN CountCmd("rect") = 1
                 ELSE CountCmd("lineTo") = 3 /\ CountCmd("bezierCurveTo") = 4
        /\ call.op = "contains" => ret = "undefined"
        /\ call.op = "hitTest" => ret = "base"

\* a stroked shape of an unrecognised kind hit-tested at a point of its
\* outer edge
C9_Witness ==
    /\ type = "other"
    /\ call.op = "hitTest"
    /\ call.hasStroke
    /\ call.strokeWidth > 0
    /\ _size.width > 0
    /\ 2 * call.point.x = _size.width
    /\ call.point.y = 0

\* C10 as stated: a setSize or setRadius call that leaves size and radius
\* as they were emits no notification, for every kind.
C10_NotifiesOnlyOnChange ==
    (IsSetter /\ Unchanged) => Notified = 0

\* C10 amended: a notification is emitted only by a call whose argument
\* differs from the stored value it is compared with (the stored size for
\* setSize, the stored radius for setRadius); for ellipse, rect and any
\* other non-circle kind, a call that leaves size and radius as they were
\* emits none.
C10_NotifiesOnlyOnNewArgument ==
    IsSetter =>
        /\ Notified > 0 =>
              \/ call.op = "setSize" /\ ~equals(pre.size, call.size)
              \/ call.op = "setRadius" /\ call.radius # pre.radius
        /\ (type # "circle" /\ Unchanged) => Notified = 0

\* a rect whose setRadius call was given the radius it already had, after
\* an earlier change
C10_Witness ==
    /\ type = "rect"
    /\ call.op = "setRadius"
    /\ call.radius = pre.radius
    /\ call.radius.width > 0
    /\ Unchanged
    /\ Notified = 0

====
